---- MODULE Spec2Model ----
(***************************************************************************)
(* @jsdsl/semaphore: a Promise-based counting semaphore.                   *)
(*                                                                         *)
(* The model is the Semaphore / SemaphoreLock pair running on a JavaScript *)
(* event loop: one FIFO microtask queue (promise reaction jobs), user code *)
(* that runs to completion in synchronous blocks (a macrotask, a promise   *)
(* continuation, or the operation handed to performLockedOperation), and   *)
(* macrotasks that only start when the microtask queue is empty.           *)
(*                                                                         *)
(* Two revisions of Semaphore#getLock are in the sources and both are      *)
(* modelled; `version` selects the one the constructed semaphore runs:     *)
(*   "v1.0.0"  src/ts/semaphore.ts      await Promise.any(Object.values(   *)
(*             this.outstandingLocks)), no performLockedOperation          *)
(*   "v1.1.0"  src/unnamed/part_004     await Promise.any(                 *)
(*             this.getLockPromises()), with performLockedOperation        *)
(***************************************************************************)
EXTENDS Integers, Sequences, FiniteSets, TLC

(* ------------------------------ bounds -------------------------------- *)

\* largest capacity handed to the constructor
MaxCap == 2
\* total number of getLock() invocations in a run (direct or through
\* performLockedOperation); every invocation mints at most one lock
MaxCalls == 4
\* number of performLockedOperation invocations in a run
MaxPlos == 2
\* number of release() calls in a run that hit a lock already released
MaxRedundantReleases == 1
\* number of getLock() invocations in a run that is checked for liveness
MaxFairCalls == 3
\* number of reactions on one lock's promise beyond which tasks that run for
\* ever issue no further call
MaxReactions == 4
\* number of callbacks user code attaches to waitForRelease() in a run, and
\* number of getLock() invocations in such a run
MaxObservers == 2
MaxObservedCalls == 3
\* number of distinct values / errors an operation can produce
NumVals == 2

\* capacities the constructor is called with: it validates nothing, so a
\* negative one and 0 are among them
Capacities == (-1)..MaxCap
\* the 128-bit random hex ids, cut down to a set that always has a free id
IDs == 1..(MaxCap + 1)
Values == 1..NumVals
\* the AggregateError that Promise.any([]) rejects with
AggregateError == 0

Versions == {"v1.0.0", "v1.1.0"}

VARIABLES
    version,          \* which revision of semaphore.ts is running
    arg,              \* the argument the constructor was called with
    maxLockCount,     \* Semaphore.maxLockCount
    outstandingLocks, \* Semaphore.outstandingLocks: id -> lock object
    locks,            \* every SemaphoreLock object created so far
    calls,            \* every getLock() invocation (async function instance)
    plos,             \* every performLockedOperation() invocation
    queue,            \* the microtask queue
    block,            \* the synchronous user code that is running, if any
    curOp,            \* the performLockedOperation whose operation is running
    ordering          \* getLock() invocations in the order they were admitted

vars == <<version, arg, maxLockCount, outstandingLocks, locks, calls, plos,
          queue, block, curOp, ordering>>

(* --------------------------- microtask jobs --------------------------- *)

\* t: kind of job, a: the object it belongs to, r: Promise.any round,
\* ok/v: the settled outcome carried by an operation continuation
Job(t, a) == [t |-> t, a |-> a, r |-> 0, ok |-> FALSE, v |-> 0]
AnyJob(g, r) == [t |-> "any", a |-> g, r |-> r, ok |-> FALSE, v |-> 0]
OpJob(p, ok, v) == [t |-> "opCont", a |-> p, r |-> 0, ok |-> ok, v |-> v]

RECURSIVE Copies(_, _)
Copies(j, k) == IF k <= 0 THEN <<>> ELSE <<j>> \o Copies(j, k - 1)

(* ------------------------ the semaphore's state ----------------------- *)

\* the part of the state the semaphore's methods read and write, as a value
\* the method bodies below transform
Now ==
    [ol |-> outstandingLocks, locks |-> locks, calls |-> calls,
     plos |-> plos, queue |-> queue, ordering |-> ordering]

Become(s) ==
    /\ outstandingLocks' = s.ol
    /\ locks' = s.locks
    /\ calls' = s.calls
    /\ plos' = s.plos
    /\ queue' = s.queue
    /\ ordering' = s.ordering

\* Semaphore constructor: stores the argument unchecked, empty mapping
Construct(n) == [maxLockCount |-> n, outstandingLocks |-> << >>]

\* Semaphore#getLockCount: Object.keys(this.outstandingLocks).length
LockCountOf(ol) == Cardinality(DOMAIN ol)
getLockCount == LockCountOf(outstandingLocks)

\* the permits that are left, in place of the capacity
RemainingLockCount == maxLockCount - getLockCount

\* Semaphore#getMaximumLockCount
getMaximumLockCount == maxLockCount

\* Object.values(this.outstandingLocks): the lock objects in the mapping
ValuesOf(ol) == {ol[i] : i \in DOMAIN ol}

(* ----------------------------- SemaphoreLock -------------------------- *)

\* new SemaphoreLock(id): a pending releasePromise with no reaction yet.
\* observers: callbacks user code attached to waitForRelease(); seen: what
\* the callbacks that ran were called with
NewLock(id) ==
    [id |-> id, released |-> FALSE, reactions |-> <<>>, releaseCalls |-> 0,
     observers |-> 0, seen |-> <<>>]

\* the reaction jobs of a promise that is fulfilled with the value v
Fulfil(reactions, v) ==
    [i \in 1..Len(reactions) |-> [reactions[i] EXCEPT !.v = v]]

\* a release() that resolves the promise with no value
ReleaseNoID(s, l) ==
    IF s.locks[l].released
    THEN [s EXCEPT !.locks[l].releaseCalls = @ + 1]
    ELSE [s EXCEPT !.locks[l].released = TRUE,
                   !.locks[l].releaseCalls = @ + 1,
                   !.locks[l].reactions = <<>>,
                   !.queue = @ \o s.locks[l].reactions]

\* a release() that runs the semaphore's continuation and wakes one waiter
ReleaseNotifyOne(s, l) ==
    IF s.locks[l].released
    THEN [s EXCEPT !.locks[l].releaseCalls = @ + 1]
    ELSE [s EXCEPT !.locks[l].released = TRUE,
                   !.locks[l].releaseCalls = @ + 1,
                   !.locks[l].reactions = <<>>,
                   !.queue = @ \o Fulfil(
                       IF Len(s.locks[l].reactions) <= 2
                       THEN s.locks[l].reactions
                       ELSE SubSeq(s.locks[l].reactions, 1, 2),
                       s.locks[l].id)]

\* a release() that flips the lock back to unreleased on a second call
ReleaseToggle(s, l) ==
    IF s.locks[l].released
    THEN [s EXCEPT !.locks[l].releaseCalls = @ + 1,
                   !.locks[l].released = FALSE]
    ELSE [s EXCEPT !.locks[l].released = TRUE,
                   !.locks[l].releaseCalls = @ + 1,
                   !.locks[l].reactions = <<>>,
                   !.queue = @ \o Fulfil(s.locks[l].reactions,
                                         s.locks[l].id)]

\* a release() that notifies the semaphore on every call, not only the first
ReleaseRefire(s, l) ==
    IF s.locks[l].released
    THEN [s EXCEPT !.locks[l].releaseCalls = @ + 1,
                   !.queue = @ \o Fulfil(<<Job("del", l)>>, s.locks[l].id)]
    ELSE [s EXCEPT !.locks[l].released = TRUE,
                   !.locks[l].releaseCalls = @ + 1,
                   !.locks[l].reactions = <<>>,
                   !.queue = @ \o Fulfil(s.locks[l].reactions,
                                         s.locks[l].id)]

\* SemaphoreLock#release: releaseFunction(this.getID()) is the promise's
\* resolve function, so the first call fulfils releasePromise with the id
\* of the lock and queues its reactions in registration order, and a later
\* call does nothing
Release(s, l) ==
    IF s.locks[l].released
    THEN [s EXCEPT !.locks[l].releaseCalls = @ + 1]
    ELSE [s EXCEPT !.locks[l].released = TRUE,
                   !.locks[l].releaseCalls = @ + 1,
                   !.locks[l].reactions = <<>>,
                   !.queue = @ \o Fulfil(s.locks[l].reactions,
                                         s.locks[l].id)]

(* ------------------------------ getLock ------------------------------- *)

\* awaited: the locks that were in the mapping when the call last suspended
NewCall(owner) ==
    [state |-> "pending", lock |-> 0, owner |-> owner, waited |-> FALSE,
     round |-> 0, woken |-> FALSE, delivered |-> FALSE, awaited |-> {}]

\* an admission that also drops the entries of released locks
AdmitPruning(s, g, id) ==
    LET l == Len(s.locks) + 1
        lk == [NewLock(id) EXCEPT !.reactions = <<Job("del", l)>>]
        kept == {i \in DOMAIN s.ol : ~s.locks[s.ol[i]].released}
    IN [s EXCEPT
          !.ol = [i \in kept \cup {id} |-> IF i = id THEN l ELSE s.ol[i]],
          !.locks = Append(@, lk),
          !.calls[g].state = "resolved",
          !.calls[g].lock = l,
          !.ordering = Append(@, g),
          !.queue = Append(@, Job("lockCont", g))]

\* an admission that leaves the removal to whoever awaits the release
AdmitNoContinuation(s, g, id) ==
    LET l == Len(s.locks) + 1
    IN [s EXCEPT
          !.ol = [i \in DOMAIN s.ol \cup {id} |->
                     IF i = id THEN l ELSE s.ol[i]],
          !.locks = Append(@, NewLock(id)),
          !.calls[g].state = "resolved",
          !.calls[g].lock = l,
          !.ordering = Append(@, g),
          !.queue = Append(@, Job("lockCont", g))]

\* getLock past its while loop: mint the lock under a fresh id, insert it,
\* attach the self-deleting continuation, return it (which fulfils the
\* promise of the call and queues the continuation of whoever awaits it)
Admit(s, g, id) ==
    LET l == Len(s.locks) + 1
        lk == [NewLock(id) EXCEPT !.reactions = <<Job("del", l)>>]
    IN [s EXCEPT
          !.ol = [i \in DOMAIN s.ol \cup {id} |->
                     IF i = id THEN l ELSE s.ol[i]],
          !.locks = Append(@, lk),
          !.calls[g].state = "resolved",
          !.calls[g].lock = l,
          !.ordering = Append(@, g),
          !.queue = Append(@, Job("lockCont", g))]

\* a wait on the releasePromise of one lock of the mapping only
SuspendOnFirstPromise(s, g) ==
    LET r == s.calls[g].round + 1
        all == ValuesOf(s.ol)
        vs == IF all = {} THEN {}
              ELSE {CHOOSE l \in all : \A k \in all : l <= k}
        fired == {l \in vs : s.locks[l].released}
        s1 == [s EXCEPT !.calls[g].round = r,
                        !.calls[g].woken = FALSE,
                        !.calls[g].waited = TRUE,
                        !.calls[g].awaited = vs]
    IN IF vs = {}
       THEN [s1 EXCEPT !.queue = Append(@, Job("throw", g))]
       ELSE [s1 EXCEPT
               !.locks = [l \in 1..Len(s.locks) |->
                            IF l \in vs /\ ~s.locks[l].released
                            THEN [s.locks[l] EXCEPT
                                    !.reactions = Append(@, AnyJob(g, r))]
                            ELSE s.locks[l]],
               !.queue = @ \o Copies(AnyJob(g, r), Cardinality(fired))]

\* v1.1.0: await Promise.any(this.getLockPromises()): one reaction on the
\* releasePromise of every lock in the mapping; a promise that is already
\* fulfilled (released, not yet deleted) queues its reaction at once.
\* Promise.any of an empty array is already rejected with an AggregateError.
SuspendOnPromises(s, g) ==
    LET r == s.calls[g].round + 1
        vs == ValuesOf(s.ol)
        fired == {l \in vs : s.locks[l].released}
        s1 == [s EXCEPT !.calls[g].round = r,
                        !.calls[g].woken = FALSE,
                        !.calls[g].waited = TRUE,
                        !.calls[g].awaited = vs]
    IN IF vs = {}
       THEN [s1 EXCEPT !.queue = Append(@, Job("throw", g))]
       ELSE [s1 EXCEPT
               !.locks = [l \in 1..Len(s.locks) |->
                            IF l \in vs /\ ~s.locks[l].released
                            THEN [s.locks[l] EXCEPT
                                    !.reactions = Append(@, AnyJob(g, r))]
                            ELSE s.locks[l]],
               !.queue = @ \o Copies(AnyJob(g, r), Cardinality(fired))]

\* v1.0.0: await Promise.any(Object.values(this.outstandingLocks)): the
\* values are SemaphoreLock objects, not promises, so Promise.resolve()
\* wraps each in a fulfilled promise and every reaction is queued at once
SuspendOnValues(s, g) ==
    LET vs == ValuesOf(s.ol)
        s1 == [s EXCEPT !.calls[g].woken = FALSE,
                        !.calls[g].waited = TRUE,
                        !.calls[g].awaited = vs]
    IN IF vs = {}
       THEN [s1 EXCEPT !.queue = Append(@, Job("throw", g))]
       ELSE [s1 EXCEPT !.queue = @ \o Copies(AnyJob(g, 0), Cardinality(vs))]

\* a Promise.any whose promise stays pending on an empty array
SuspendHangOnEmpty(s, g) ==
    IF ValuesOf(s.ol) = {}
    THEN [s EXCEPT !.calls[g].woken = FALSE,
                   !.calls[g].waited = TRUE,
                   !.calls[g].awaited = {}]
    ELSE IF version = "v1.1.0" THEN SuspendOnPromises(s, g)
    ELSE SuspendOnValues(s, g)

Suspend(s, g) ==
    IF version = "v1.1.0" THEN SuspendOnPromises(s, g)
    ELSE SuspendOnValues(s, g)

\* the guard with > for >=
AtCapacityOffByOne(s) == LockCountOf(s.ol) > maxLockCount

\* the guard with the count taken one too high
AtCapacityEarly(s) == LockCountOf(s.ol) + 1 >= maxLockCount

\* the guard of getLock's while loop
AtCapacity(s) == LockCountOf(s.ol) >= getMaximumLockCount

\* a getLock that inserts its lock without looking at the count
GetLockStepNoWait(s, g, id) == Admit(s, g, id)

\* one pass of getLock from the loop guard to its next await or its return
GetLockStep(s, g, id) ==
    IF AtCapacity(s) THEN Suspend(s, g) ELSE Admit(s, g, id)

\* ids the do/while of getLock can end on: any id that is not a key of the
\* mapping. The random ids are interchangeable, so of the ids no lock has
\* carried yet only the smallest is tried; an id a deleted lock carried can
\* come up again.
UsedIDs(s) == {s.locks[l].id : l \in 1..Len(s.locks)}
\* ids drawn without the hasOwnProperty loop
FreshIDsNoCheck(s) ==
    {i \in IDs : i \in UsedIDs(s) \/ \A j \in IDs \ UsedIDs(s) : i <= j}

FreshIDs(s) ==
    {i \in IDs \ DOMAIN s.ol :
        i \in UsedIDs(s) \/ \A j \in IDs \ UsedIDs(s) : i <= j}

\* a call of getLock(): the new async function instance runs to its first
\* await or to its return
CallGetLock(s, owner, id) ==
    LET g == Len(s.calls) + 1
    IN GetLockStep([s EXCEPT !.calls = Append(@, NewCall(owner))], g, id)

(* ------------------------------ user code ----------------------------- *)

\* user code runs inside a synchronous block, or starts a macrotask when
\* nothing is running and the microtask queue is drained
CanAct == block # "idle" \/ queue = <<>>

Acting == block' = (IF block = "idle" THEN "user" ELSE block) /\ curOp' = curOp

\* user code calls semaphore.getLock() and awaits (or .then()s) the result
UserGetLock ==
    /\ CanAct
    /\ Len(calls) < MaxCalls
    /\ \E id \in FreshIDs(Now) : Become(CallGetLock(Now, 0, id))
    /\ Acting
    /\ UNCHANGED <<version, arg, maxLockCount>>

RECURSIVE SumOver(_, _)
SumOver(f, k) == IF k = 0 THEN 0 ELSE f[k] + SumOver(f, k - 1)

\* release() calls so far that found their lock already released
RedundantReleases(ls) ==
    SumOver([l \in 1..Len(ls) |->
               IF ls[l].releaseCalls > 1 THEN ls[l].releaseCalls - 1 ELSE 0],
            Len(ls))

\* locks user code was handed by a getLock() it awaited
HeldLocks ==
    {calls[g].lock : g \in {h \in 1..Len(calls) :
        calls[h].owner = 0 /\ calls[h].delivered /\ calls[h].state = "resolved"}}

\* user code calls release() on a lock it was handed and has not released
UserRelease ==
    /\ CanAct
    /\ \E l \in HeldLocks :
         /\ ~locks[l].released
         /\ Become(Release(Now, l))
    /\ Acting
    /\ UNCHANGED <<version, arg, maxLockCount>>

\* user code calls release() once more on a lock it has already released
UserReleaseAgain ==
    /\ CanAct
    /\ RedundantReleases(locks) < MaxRedundantReleases
    /\ \E l \in HeldLocks :
         /\ locks[l].released
         /\ Become(Release(Now, l))
    /\ Acting
    /\ UNCHANGED <<version, arg, maxLockCount>>

\* SemaphoreLock#waitForRelease followed by then(callback): a reaction on
\* releasePromise, queued at once when the promise is already fulfilled
WaitForRelease(s, l) ==
    IF s.locks[l].released
    THEN [s EXCEPT !.locks[l].observers = @ + 1,
                   !.queue = @ \o Fulfil(<<Job("obs", l)>>, s.locks[l].id)]
    ELSE [s EXCEPT !.locks[l].observers = @ + 1,
                   !.locks[l].reactions = Append(@, Job("obs", l))]

\* callbacks attached to waitForRelease() so far
Observers(ls) == SumOver([l \in 1..Len(ls) |-> ls[l].observers], Len(ls))

\* user code attaches a callback to waitForRelease() of a lock it was handed
UserWaitForRelease ==
    /\ CanAct
    /\ Observers(locks) < MaxObservers
    /\ \E l \in HeldLocks : Become(WaitForRelease(Now, l))
    /\ Acting
    /\ UNCHANGED <<version, arg, maxLockCount>>

\* the running block of user code returns to the event loop
EndBlock ==
    /\ block = "user"
    /\ block' = "idle"
    /\ UNCHANGED <<version, arg, maxLockCount, outstandingLocks, locks,
                   calls, plos, queue, curOp, ordering>>

(* ------------------------- microtask execution ------------------------ *)

Runnable(t) == block = "idle" /\ queue # <<>> /\ Head(queue).t = t

Popped == [Now EXCEPT !.queue = Tail(@)]

\* a continuation that empties the mapping
DeleteLockClearsAll(s, l) ==
    [s EXCEPT !.ol = << >>]

\* (): boolean => delete this.outstandingLocks[lockID]
DeleteLock(s, l) ==
    LET id == s.locks[l].id
    IN [s EXCEPT !.ol = [i \in DOMAIN s.ol \ {id} |-> s.ol[i]]]

RunDelete ==
    /\ Runnable("del")
    /\ Become(DeleteLock(Popped, Head(queue).a))
    /\ UNCHANGED <<version, arg, maxLockCount, block, curOp>>

\* a callback attached to waitForRelease() is called with the value
\* releasePromise was fulfilled with; it is user code
RunObserver ==
    /\ Runnable("obs")
    /\ Become([Popped EXCEPT
                 !.locks[Head(queue).a].seen = Append(@, Head(queue).v)])
    /\ block' = "user"
    /\ UNCHANGED <<version, arg, maxLockCount, curOp>>

\* Promise.any's per-element reaction: the first one to run fulfils the
\* aggregate promise, which queues the continuation of the awaiting getLock;
\* reactions of an aggregate that is already settled do nothing
AnyReaction(s, g, r) ==
    IF s.calls[g].state = "pending" /\ s.calls[g].round = r
       /\ ~s.calls[g].woken
    THEN [s EXCEPT !.calls[g].woken = TRUE,
                   !.queue = Append(@, Job("resume", g))]
    ELSE s

RunAnyReaction ==
    /\ Runnable("any")
    /\ Become(AnyReaction(Popped, Head(queue).a, Head(queue).r))
    /\ UNCHANGED <<version, arg, maxLockCount, block, curOp>>

\* an `if` in place of the `while`: the woken call takes the slot unchecked
ResumeNoRecheck(s, g, id) == Admit(s, g, id)

\* getLock resumes after its await: `while` re-evaluates the loop guard
ResumeGetLock(s, g, id) == GetLockStep(s, g, id)

RunResume ==
    /\ Runnable("resume")
    /\ \E id \in FreshIDs(Now) :
         Become(ResumeGetLock(Popped, Head(queue).a, id))
    /\ UNCHANGED <<version, arg, maxLockCount, block, curOp>>

\* the await in getLock throws the AggregateError: the call's promise is
\* rejected and the continuation of whoever awaits it is queued
ThrowInGetLock(s, g) ==
    [s EXCEPT !.calls[g].state = "rejected",
              !.queue = Append(@, Job("lockCont", g))]

RunThrow ==
    /\ Runnable("throw")
    /\ Become(ThrowInGetLock(Popped, Head(queue).a))
    /\ UNCHANGED <<version, arg, maxLockCount, block, curOp>>

\* the continuation of user code that awaited getLock(): it now holds the
\* lock (or the error) and runs a block of user code
RunLockContinuation ==
    /\ Runnable("lockCont")
    /\ calls[Head(queue).a].owner = 0
    /\ Become([Popped EXCEPT !.calls[Head(queue).a].delivered = TRUE])
    /\ block' = "user"
    /\ UNCHANGED <<version, arg, maxLockCount, curOp>>

(* ----------------------- performLockedOperation ----------------------- *)

\* nested: the getLock() invocation the operation awaits, if it awaits one
NewPlo(g) ==
    [call |-> g, state |-> "acquiring", lock |-> 0, opDone |-> FALSE,
     opOk |-> FALSE, opVal |-> 0, outVal |-> 0, observed |-> FALSE,
     nested |-> 0]

\* a call of performLockedOperation(operation): the new async function
\* instance calls this.getLock() and awaits the promise it returns
CallPerformLockedOperation(s, id) ==
    LET p == Len(s.plos) + 1
        g == Len(s.calls) + 1
    IN CallGetLock([s EXCEPT !.plos = Append(@, NewPlo(g))], p, id)

\* user code calls semaphore.performLockedOperation(op) and awaits the result
UserPerformLockedOperation ==
    /\ CanAct
    /\ version = "v1.1.0"
    /\ Len(plos) < MaxPlos
    /\ Len(calls) < MaxCalls
    /\ \E id \in FreshIDs(Now) : Become(CallPerformLockedOperation(Now, id))
    /\ Acting
    /\ UNCHANGED <<version, arg, maxLockCount>>

\* release() placed ahead of the operation instead of in finally
RunPloAcquiredReleaseFirst ==
    /\ Runnable("lockCont")
    /\ LET g == Head(queue).a
           p == calls[g].owner
       IN /\ p # 0
          /\ calls[g].state = "resolved"
          /\ Become(Release([Popped EXCEPT !.plos[p].lock = calls[g].lock,
                                           !.plos[p].state = "inOp",
                                           !.calls[g].delivered = TRUE],
                            calls[g].lock))
          /\ block' = "op"
          /\ curOp' = p
    /\ UNCHANGED <<version, arg, maxLockCount>>

\* let lock = await this.getLock() resumes with the lock; the try block is
\* entered and operation() is invoked
RunPloAcquired ==
    /\ Runnable("lockCont")
    /\ LET g == Head(queue).a
           p == calls[g].owner
       IN /\ p # 0
          /\ calls[g].state = "resolved"
          /\ Become([Popped EXCEPT !.plos[p].lock = calls[g].lock,
                                   !.plos[p].state = "inOp",
                                   !.calls[g].delivered = TRUE])
          /\ block' = "op"
          /\ curOp' = p
    /\ UNCHANGED <<version, arg, maxLockCount>>

\* the promise an async function returns is settled: the continuation of the
\* caller that awaits it is queued
SettlePlo(s, p, ok, v) ==
    [s EXCEPT !.plos[p].state = IF ok THEN "fulfilled" ELSE "rejected",
              !.plos[p].outVal = v,
              !.queue = Append(@, Job("ploCont", p))]

\* await this.getLock() throws (outside the try block): the error leaves
\* performLockedOperation as it is
RunPloGetLockFailed ==
    /\ Runnable("lockCont")
    /\ LET g == Head(queue).a
           p == calls[g].owner
       IN /\ p # 0
          /\ calls[g].state = "rejected"
          /\ Become(SettlePlo(Popped, p, FALSE, AggregateError))
    /\ UNCHANGED <<version, arg, maxLockCount, block, curOp>>

\* the body without try/finally: the lock is released after a success only
FinishPloNoFinally(s, p, ok, v) ==
    IF ok THEN SettlePlo(Release(s, s.plos[p].lock), p, ok, v)
    ELSE SettlePlo(s, p, ok, v)

\* a catch block that throws a new error around the one it caught
FinishPloWrapError(s, p, ok, v) ==
    SettlePlo(Release(s, s.plos[p].lock), p, ok,
              IF ok THEN v ELSE AggregateError)

\* `await operation()` without the `return`: the result is dropped
FinishPloDropResult(s, p, ok, v) ==
    SettlePlo(Release(s, s.plos[p].lock), p, ok, IF ok THEN 0 ELSE v)

\* an outcome that leaves the async function before finally releases the lock
FinishPloSettleFirst(s, p, ok, v) ==
    Release(SettlePlo(s, p, ok, v), s.plos[p].lock)

\* the try/catch/finally around `return await operation()` once the outcome
\* (ok, v) of the operation is known: catch rethrows the same error, finally
\* releases the lock, then the outcome leaves the async function
FinishPlo(s, p, ok, v) ==
    SettlePlo(Release(s, s.plos[p].lock), p, ok, v)

OpModes == {"sync", "settled", "pending"}

\* `return operation()` without the await: a promise the operation returns
\* is handed on as it is and finally releases the lock at once
OperationReturnsNoAwait(s, p, mode, ok, v) ==
    IF mode = "sync" /\ ~ok
    THEN SettlePlo(Release([s EXCEPT !.plos[p].opDone = TRUE,
                                     !.plos[p].opOk = FALSE,
                                     !.plos[p].opVal = v],
                           s.plos[p].lock), p, FALSE, v)
    ELSE IF mode = "pending"
    THEN Release([s EXCEPT !.plos[p].state = "awaitOp"], s.plos[p].lock)
    ELSE Release([s EXCEPT !.plos[p].state = "awaitOp",
                           !.plos[p].opDone = TRUE,
                           !.plos[p].opOk = ok,
                           !.plos[p].opVal = v,
                           !.queue = Append(@, OpJob(p, ok, v))],
                 s.plos[p].lock)

\* operation() returns to `return await operation()`:
\*   sync    it returned the value v, or threw the error v
\*   settled it returned a promise that is already fulfilled / rejected with v
\*   pending it returned a promise that is still pending
\* A synchronous throw goes straight to catch and finally; anything else is
\* awaited, and an await of a settled value queues the continuation at once.
OperationReturns(s, p, mode, ok, v) ==
    IF mode = "sync" /\ ~ok
    THEN FinishPlo([s EXCEPT !.plos[p].opDone = TRUE,
                             !.plos[p].opOk = FALSE,
                             !.plos[p].opVal = v], p, FALSE, v)
    ELSE IF mode = "pending"
    THEN [s EXCEPT !.plos[p].state = "awaitOp"]
    ELSE [s EXCEPT !.plos[p].state = "awaitOp",
                   !.plos[p].opDone = TRUE,
                   !.plos[p].opOk = ok,
                   !.plos[p].opVal = v,
                   !.queue = Append(@, OpJob(p, ok, v))]

OpReturn ==
    /\ block = "op"
    /\ \E mode \in OpModes, ok \in BOOLEAN, v \in Values :
         Become(OperationReturns(Now, curOp, mode, ok, v))
    /\ block' = "idle"
    /\ curOp' = 0
    /\ UNCHANGED <<version, arg, maxLockCount>>

\* the operation of p awaits no getLock() or performLockedOperation() of
\* its own whose outcome it has not seen yet
NestedDone(s, p) ==
    LET g == s.plos[p].nested
    IN g # 0 =>
          IF s.calls[g].owner = 0
          THEN s.calls[g].delivered
          ELSE s.plos[s.calls[g].owner].observed

\* user code settles the promise a pending operation returned (a timer
\* callback, or any other user code; the rest of an operation that awaited
\* a call of its own, once it has seen that call's outcome)
SettleOp ==
    /\ CanAct
    /\ \E p \in 1..Len(plos), ok \in BOOLEAN, v \in Values :
         /\ plos[p].state = "awaitOp"
         /\ ~plos[p].opDone
         /\ NestedDone(Now, p)
         /\ Become([Now EXCEPT !.plos[p].opDone = TRUE,
                               !.plos[p].opOk = ok,
                               !.plos[p].opVal = v,
                               !.queue = Append(@, OpJob(p, ok, v))])
    /\ Acting
    /\ UNCHANGED <<version, arg, maxLockCount>>

\* the operation reaches an await of the call g it has just made on the same
\* semaphore: `return await operation()` gets a pending promise that is
\* settled only after the operation has resumed from that await
OperationAwaits(s, p, g) ==
    [s EXCEPT !.plos[p].state = "awaitOp", !.plos[p].nested = g]

\* the running operation does `await semaphore.getLock()`
OpAwaitsGetLock ==
    /\ block = "op"
    /\ Len(calls) < MaxCalls
    /\ \E id \in FreshIDs(Now) :
         Become(OperationAwaits(CallGetLock(Now, 0, id), curOp,
                                Len(calls) + 1))
    /\ block' = "idle"
    /\ curOp' = 0
    /\ UNCHANGED <<version, arg, maxLockCount>>

\* the running operation does `await semaphore.performLockedOperation(op2)`
OpAwaitsOperation ==
    /\ block = "op"
    /\ Len(plos) < MaxPlos
    /\ Len(calls) < MaxCalls
    /\ \E id \in FreshIDs(Now) :
         Become(OperationAwaits(CallPerformLockedOperation(Now, id), curOp,
                                Len(calls) + 1))
    /\ block' = "idle"
    /\ curOp' = 0
    /\ UNCHANGED <<version, arg, maxLockCount>>

\* performLockedOperation resumes after `await operation()`
RunOpContinuation ==
    /\ Runnable("opCont")
    /\ Become(FinishPlo(Popped, Head(queue).a, Head(queue).ok, Head(queue).v))
    /\ UNCHANGED <<version, arg, maxLockCount, block, curOp>>

\* the continuation of user code that awaited performLockedOperation()
RunPloContinuation ==
    /\ Runnable("ploCont")
    /\ Become([Popped EXCEPT !.plos[Head(queue).a].observed = TRUE])
    /\ block' = "user"
    /\ UNCHANGED <<version, arg, maxLockCount, curOp>>

(* ---------------------------- specification --------------------------- *)

Init ==
    /\ version \in Versions
    /\ arg \in Capacities
    /\ maxLockCount = Construct(arg).maxLockCount
    /\ outstandingLocks = Construct(arg).outstandingLocks
    /\ locks = <<>>
    /\ calls = <<>>
    /\ plos = <<>>
    /\ queue = <<>>
    /\ block = "idle"
    /\ curOp = 0
    /\ ordering = <<>>

Next ==
    \/ UserGetLock
    \/ UserRelease
    \/ EndBlock
    \/ RunDelete
    \/ RunAnyReaction
    \/ RunResume
    \/ RunThrow
    \/ RunLockContinuation
    \/ UserPerformLockedOperation
    \/ RunPloAcquired
    \/ RunPloGetLockFailed
    \/ OpReturn
    \/ SettleOp
    \/ RunOpContinuation
    \/ RunPloContinuation

Spec == Init /\ [][Next]_vars

\* the same program with holders that call release() twice
SpecReleaseAgain == Init /\ [][Next \/ UserReleaseAgain]_vars

\* Next, with user code that also observes locks through waitForRelease()
\* and makes at most MaxObservedCalls getLock() invocations
ObserveNext ==
    \/ Len(calls) < MaxObservedCalls /\ UserGetLock
    \/ Len(calls) < MaxObservedCalls /\ UserPerformLockedOperation
    \/ UserRelease
    \/ UserWaitForRelease
    \/ EndBlock
    \/ OpReturn
    \/ SettleOp
    \/ RunObserver

\* The event loop: while no synchronous code is running it runs the job at
\* the head of the microtask queue.
Microtask ==
    \/ RunDelete
    \/ RunAnyReaction
    \/ RunResume
    \/ RunThrow
    \/ RunLockContinuation
    \/ RunPloAcquired
    \/ RunPloGetLockFailed
    \/ RunOpContinuation
    \/ RunPloContinuation

SpecObserve == Init /\ [][ObserveNext \/ Microtask]_vars

\* Next, with user code that makes no getLock() invocation once release()
\* has been called on a lock
NoLateCallNext ==
    \/ (\A l \in 1..Len(locks) : ~locks[l].released) /\ UserGetLock
    \/ (\A l \in 1..Len(locks) : ~locks[l].released)
          /\ UserPerformLockedOperation
    \/ UserRelease
    \/ EndBlock
    \/ OpReturn
    \/ SettleOp
    \/ Microtask

SpecNoLateCall == Init /\ [][NoLateCallNext]_vars

\* Every queued microtask is eventually run: synchronous blocks of user code
\* and operations return, and the event loop then takes the head of the
\* queue. User code itself need not do anything.
\* Next, with user code making at most MaxFairCalls getLock() invocations
FairNext ==
    \/ Len(calls) < MaxFairCalls /\ UserGetLock
    \/ Len(calls) < MaxFairCalls /\ UserPerformLockedOperation
    \/ UserRelease
    \/ EndBlock
    \/ OpReturn
    \/ SettleOp
    \/ Microtask

FairSpec ==
    /\ Init
    /\ [][FairNext]_vars
    /\ WF_vars(Microtask)
    /\ WF_vars(EndBlock)
    /\ WF_vars(OpReturn)

\* operations that await a call of their own on the semaphore they run under
SpecReentrant == Init /\ [][Next \/ OpAwaitsGetLock \/ OpAwaitsOperation]_vars

(* ------------------- tasks that go on for ever ------------------------- *)

\* every job that is queued or registered as a reaction on a lock's promise
PendingJobs(s) ==
    {s.queue[i] : i \in 1..Len(s.queue)} \cup
    UNION {{s.locks[l].reactions[i] : i \in 1..Len(s.locks[l].reactions)} :
              l \in 1..Len(s.locks)}

\* some job of one of the kinds in types is pending for the object a
\* (of round r, when r is not 0)
Refers(s, types, a, r) ==
    LET Is(j) == j.t \in types /\ j.a = a /\ (r # 0 => j.r = r)
    IN \/ \E i \in 1..Len(s.queue) : Is(s.queue[i])
       \/ \E l \in 1..Len(s.locks) :
             \E i \in 1..Len(s.locks[l].reactions) : Is(s.locks[l].reactions[i])

\* a lock nothing can reach any more: released, deleted from the mapping,
\* no reaction left to run
DeadLock(s, l) ==
    /\ s.locks[l].released
    /\ l \notin ValuesOf(s.ol)
    /\ ~Refers(s, {"del", "obs"}, l, 0)

\* a performLockedOperation whose promise is settled and was observed
DeadPlo(s, p) ==
    /\ s.plos[p].state \in {"fulfilled", "rejected"}
    /\ s.plos[p].observed
    /\ ~Refers(s, {"opCont", "ploCont"}, p, 0)

\* a getLock() invocation that has returned, whose caller has seen the
\* outcome and whose lock, if it got one, is dead
DeadCall(s, g) ==
    /\ s.calls[g].state \in {"resolved", "rejected"}
    /\ s.calls[g].lock # 0 => DeadLock(s, s.calls[g].lock)
    /\ IF s.calls[g].owner = 0
       THEN s.calls[g].delivered
       ELSE DeadPlo(s, s.calls[g].owner)
    /\ ~Refers(s, {"any", "resume", "throw", "lockCont"}, g, 0)

DeadCalls(s) == {g \in 1..Len(s.calls) : DeadCall(s, g)}
KeptCalls(s) == (1..Len(s.calls)) \ DeadCalls(s)
KeptLocks(s) == (1..Len(s.locks)) \ {s.calls[g].lock : g \in DeadCalls(s)}
KeptPlos(s) == (1..Len(s.plos)) \ {s.calls[g].owner : g \in DeadCalls(s)}

\* every Promise.any round below a call's current one still has a reaction
RoundsInUse(s) ==
    \A g \in 1..Len(s.calls) :
        \A r \in 1..(s.calls[g].round - 1) : Refers(s, {"any"}, g, r)

\* nothing to forget
Tidy == DeadCalls(Now) = {} /\ RoundsInUse(Now)

\* the position of x among the members of S, in increasing order
Rank(S, x) == Cardinality({y \in S : y <= x})

\* the state without the objects that finished and that nothing refers to:
\* the objects left keep their order, and the Promise.any rounds a call
\* still has reactions for are counted from 1 again
Compact(s) ==
    LET keepC == KeptCalls(s)
        keepL == KeptLocks(s)
        keepP == KeptPlos(s)
        Nth(S, i) == CHOOSE x \in S : Rank(S, x) = i
        Rounds(g) ==
            {s.calls[g].round} \cup
            {j.r : j \in {k \in PendingJobs(s) : k.t = "any" /\ k.a = g}}
        Round(g, r) == IF r = 0 THEN 0 ELSE Rank(Rounds(g) \ {0}, r)
        L(l) == IF l = 0 THEN 0 ELSE Rank(keepL, l)
        P(p) == IF p = 0 THEN 0 ELSE Rank(keepP, p)
        FixJob(j) ==
            CASE j.t \in {"del", "obs"} -> [j EXCEPT !.a = L(j.a)]
              [] j.t \in {"opCont", "ploCont"} -> [j EXCEPT !.a = P(j.a)]
              [] j.t = "any" ->
                    [j EXCEPT !.a = Rank(keepC, j.a), !.r = Round(j.a, j.r)]
              [] OTHER -> [j EXCEPT !.a = Rank(keepC, j.a)]
        FixJobs(q) == [i \in 1..Len(q) |-> FixJob(q[i])]
        FixLock(l) == [s.locks[l] EXCEPT !.reactions = FixJobs(@)]
        FixCall(g) ==
            [s.calls[g] EXCEPT
                !.lock = L(@),
                !.owner = P(@),
                !.round = Round(g, @),
                !.awaited = {L(l) : l \in @ \cap keepL}]
        FixPlo(p) ==
            [s.plos[p] EXCEPT
                !.call = Rank(keepC, @),
                !.lock = L(@),
                !.nested = IF @ \in keepC THEN Rank(keepC, @) ELSE 0]
        Kept(g) == g \in keepC
        admitted == SelectSeq(s.ordering, Kept)
    IN [ol |-> [i \in DOMAIN s.ol |-> L(s.ol[i])],
        locks |-> [i \in 1..Cardinality(keepL) |-> FixLock(Nth(keepL, i))],
        calls |-> [i \in 1..Cardinality(keepC) |-> FixCall(Nth(keepC, i))],
        plos |-> [i \in 1..Cardinality(keepP) |-> FixPlo(Nth(keepP, i))],
        queue |-> FixJobs(s.queue),
        ordering |-> [i \in 1..Len(admitted) |-> Rank(keepC, admitted[i])]]

\* finished objects are forgotten, as a long-running program's are
Forget ==
    /\ ~Tidy
    /\ Become(Compact(Now))
    /\ curOp' = (IF curOp = 0 THEN 0 ELSE Rank(KeptPlos(Now), curOp))
    /\ UNCHANGED <<version, arg, maxLockCount, block>>

\* no held lock has gathered MaxReactions reactions yet: every getLock()
\* that suspends again leaves its former reactions on the locks that are
\* still held
FewReactions == \A l \in 1..Len(locks) : Len(locks[l].reactions) < MaxReactions

\* tasks that keep calling for ever: what has finished is forgotten at
\* once, so the bounds count the calls that are in progress
ForeverNext ==
    \/ Forget
    \/ Tidy /\ Len(calls) < MaxFairCalls /\ FewReactions /\ UserGetLock
    \/ Tidy /\ Len(calls) < MaxFairCalls /\ FewReactions
          /\ UserPerformLockedOperation
    \/ Tidy /\ UserRelease
    \/ Tidy /\ EndBlock
    \/ Tidy /\ OpReturn
    \/ Tidy /\ SettleOp
    \/ Tidy /\ Microtask

FairSpecForever ==
    /\ Init
    /\ [][ForeverNext]_vars
    /\ WF_vars(Forget)
    /\ WF_vars(Microtask)
    /\ WF_vars(EndBlock)
    /\ WF_vars(OpReturn)
    /\ WF_vars(SettleOp)
    /\ WF_vars(UserRelease)

(* ------------------------------- claims ------------------------------- *)

Calls == 1..Len(calls)
Plos == 1..Len(plos)
Locks == 1..Len(locks)

\* release() has not been called on any lock yet
NoRelease == \A l \in Locks : locks[l].releaseCalls = 0

\* the promise performLockedOperation returned is settled
Settled(p) == plos[p].state \in {"fulfilled", "rejected"}

\* operations that were invoked and have not completed
InProgress ==
    {p \in Plos : plos[p].state \in {"inOp", "awaitOp"} /\ ~plos[p].opDone}

\* position of call g in the order of admission, 0 while it is not admitted
Pos(g) ==
    IF \E i \in 1..Len(ordering) : ordering[i] = g
    THEN CHOOSE i \in 1..Len(ordering) : ordering[i] = g
    ELSE 0

QueuedJobs == {queue[i] : i \in 1..Len(queue)}

\* C1: with a capacity n >= 1 the mapping never holds more than n entries,
\* whatever the interleaving of getLock calls, releases and continuations
C1_CountWithinCapacity ==
    maxLockCount >= 1 => getLockCount <= maxLockCount

\* the mapping is full again after a waiter took the slot a release freed
C1_Witness ==
    /\ maxLockCount >= 2
    /\ getLockCount = maxLockCount
    /\ \E g \in Calls : calls[g].waited /\ calls[g].state = "resolved"
    /\ \E g \in Calls : calls[g].waited /\ calls[g].state = "pending"

\* C2: the operations of performLockedOperation that have started and not
\* finished never number more than the capacity
C2_OperationsWithinCapacity ==
    maxLockCount >= 1 => Cardinality(InProgress) <= maxLockCount

\* an operation runs after it waited for one that ended by rejecting
C2_Witness ==
    \E p, q \in Plos :
        /\ plos[p].state = "rejected" /\ plos[p].opDone
        /\ q \in InProgress
        /\ calls[plos[q].call].waited
        /\ Cardinality(InProgress) = maxLockCount

\* C3: of two getLock calls that both found the semaphore at capacity, the
\* one made first is admitted first
C3_FifoAmongWaiters ==
    \A w1, w2 \in Calls :
        (/\ maxLockCount >= 1
         /\ w1 < w2
         /\ calls[w1].waited
         /\ calls[w2].waited
         /\ Pos(w2) # 0)
        => (Pos(w1) # 0 /\ Pos(w1) < Pos(w2))

C5_ErrorPropagatedUnchanged ==
    \A p \in Plos :
        (plos[p].opDone /\ ~plos[p].opOk) =>
            IF Settled(p)
            THEN plos[p].state = "rejected" /\ plos[p].outVal = plos[p].opVal
            ELSE OpJob(p, FALSE, plos[p].opVal) \in QueuedJobs

\* two operations failed with different errors and both rejections were seen
C5_Witness ==
    \E p, q \in Plos :
        /\ plos[p].state = "rejected" /\ plos[p].opDone /\ plos[p].observed
        /\ plos[q].state = "rejected" /\ plos[q].opDone /\ plos[q].observed
        /\ plos[p].opVal # plos[q].opVal

\* C6: an operation that succeeded with V makes performLockedOperation
\* resolve to V
C6_ResultReturned ==
    \A p \in Plos :
        (plos[p].opDone /\ plos[p].opOk) =>
            IF Settled(p)
            THEN plos[p].state = "fulfilled" /\ plos[p].outVal = plos[p].opVal
            ELSE OpJob(p, TRUE, plos[p].opVal) \in QueuedJobs

\* two operations succeeded with different values and both results were seen
C6_Witness ==
    \E p, q \in Plos :
        /\ plos[p].state = "fulfilled" /\ plos[p].observed
        /\ plos[q].state = "fulfilled" /\ plos[q].observed
        /\ plos[p].opVal # plos[q].opVal

\* C7: performLockedOperation goes lock admitted, operation invoked,
\* operation completed, release() called, promise settled, in that order:
\* the operation only runs with the lock admitted and held, the lock is only
\* released once the operation has completed, and the promise only settles
\* with the lock released
C7_AcquireRunReleaseSettle ==
    \A p \in Plos :
        /\ plos[p].state = "acquiring" => (~plos[p].opDone /\ plos[p].lock = 0)
        /\ plos[p].lock # 0 =>
              /\ calls[plos[p].call].state = "resolved"
              /\ calls[plos[p].call].lock = plos[p].lock
              /\ Pos(plos[p].call) # 0
        /\ plos[p].state \in {"inOp", "awaitOp"} => plos[p].lock # 0
        /\ p \in InProgress =>
              /\ ~locks[plos[p].lock].released
              /\ plos[p].lock \in ValuesOf(outstandingLocks)
        /\ (plos[p].lock # 0 /\ locks[plos[p].lock].released) => plos[p].opDone
        /\ (Settled(p) /\ plos[p].lock # 0) =>
              (plos[p].opDone /\ locks[plos[p].lock].released)
        /\ plos[p].opDone => plos[p].lock # 0

\* an asynchronous operation is pending with its lock held while another
\* call waits for that lock
C7_Witness ==
    \E p \in Plos :
        /\ plos[p].state = "awaitOp"
        /\ ~plos[p].opDone
        /\ \E g \in Calls :
              /\ calls[g].state = "pending"
              /\ AnyJob(g, calls[g].round)
                    \in {locks[plos[p].lock].reactions[i] :
                            i \in 1..Len(locks[plos[p].lock].reactions)}

\* C8: k <= n getLock calls on a fresh semaphore with no release are all
\* admitted without suspending, and the count is k
C8_FirstCallsAdmittedAtOnce ==
    (NoRelease /\ Len(calls) <= maxLockCount) =>
        /\ \A g \in Calls : calls[g].state = "resolved" /\ ~calls[g].waited
        /\ getLockCount = Len(calls)

\* as many calls as the capacity, all admitted
C8_Witness ==
    /\ NoRelease
    /\ maxLockCount >= 2
    /\ Len(calls) = maxLockCount
    /\ queue = <<>>

\* C9: with more than n getLock calls and no release, exactly n calls are
\* resolved, every other call is pending, and the count is n
C9_ExcessCallsStayPending ==
    (maxLockCount >= 1 /\ NoRelease /\ Len(calls) > maxLockCount) =>
        /\ Cardinality({g \in Calls : calls[g].state = "resolved"})
              = maxLockCount
        /\ \A g \in Calls : calls[g].state \in {"resolved", "pending"}
        /\ getLockCount = maxLockCount

\* n + 2 calls, nothing released, every holder has run its continuation
C9_Witness ==
    /\ maxLockCount >= 1
    /\ NoRelease
    /\ Len(calls) >= maxLockCount + 2
    /\ \A g \in Calls : calls[g].state = "resolved" => calls[g].delivered
    /\ block = "idle"

\* C10: a fresh semaphore reports a count of 0 and its capacity, and the
\* capacity it reports never changes
C10_CapacityFixed ==
    arg > 0 =>
        /\ getMaximumLockCount = arg
        /\ calls = <<>> => getLockCount = 0

\* locks were taken, released and deleted, an operation ran to its end
C10_Witness ==
    /\ arg > 0
    /\ \E l \in Locks : locks[l].released /\ l \notin ValuesOf(outstandingLocks)
    /\ \E p \in Plos : Settled(p) /\ plos[p].lock # 0
    /\ getLockCount > 0

\* C11: constructing a Semaphore with maxLockCount <= 0 fails, so that no
\* semaphore with a non-positive capacity exists.
C11_NonPositiveCapacityRejected ==
    getMaximumLockCount > 0

Unreleased(ls) == {l \in 1..Len(ls) : ~ls[l].released}

\* C13: a second or later release() on a lock is a no-op: it queues no
\* notification again, removes nothing from the mapping, changes no lock,
\* no call and no operation, and leaves getLockCount() at least 0 and at
\* least the number of unreleased locks.
C13_SecondReleaseNoOp ==
    [][RedundantReleases(locks') > RedundantReleases(locks) =>
         /\ queue' = queue
         /\ outstandingLocks' = outstandingLocks
         /\ calls' = calls /\ plos' = plos /\ ordering' = ordering
         /\ Len(locks') = Len(locks)
         /\ \A l \in Locks :
               /\ locks'[l].released = locks[l].released
               /\ locks'[l].reactions = locks[l].reactions
               /\ locks'[l].id = locks[l].id
         /\ LockCountOf(outstandingLocks') >= 0
         /\ LockCountOf(outstandingLocks') >= Cardinality(Unreleased(locks'))
      ]_vars

\* a lock was released twice after its entry was removed and its id was
\* taken by a later lock that is still outstanding, while a call waits
C13_Witness ==
    \E l, k \in Locks :
        /\ locks[l].releaseCalls = 2
        /\ l # k
        /\ locks[k].id = locks[l].id
        /\ ~locks[k].released
        /\ locks[k].id \in DOMAIN outstandingLocks
        /\ outstandingLocks[locks[k].id] = k
        /\ \E g \in Calls : calls[g].state = "pending" /\ k \in calls[g].awaited

\* lock l has an entry of its own in the mapping ol
InMapping(ol, ls, l) ==
    /\ l \in 1..Len(ls)
    /\ ls[l].id \in DOMAIN ol
    /\ ol[ls[l].id] = l

\* the delete continuation of lock l is in the microtask queue
DeleteQueued(l) ==
    \E i \in DOMAIN queue : queue[i].t = "del" /\ queue[i].a = l

\* C14: after release() on an outstanding lock its entry is eventually
\* removed from the mapping, whatever the holder does afterwards: from the
\* release on, the delete continuation registered at admission is queued
\* until the entry is gone, and the step that removes the entry of a lock
\* removes it for a released lock and lowers getLockCount() by exactly one.
C14_ReleasedEntryRemoved ==
    /\ \A l \in 1..MaxFairCalls :
          (InMapping(outstandingLocks, locks, l) /\ locks[l].released)
              ~> ~InMapping(outstandingLocks, locks, l)
    /\ [](\A l \in Locks :
            (InMapping(outstandingLocks, locks, l) /\ locks[l].released)
                => DeleteQueued(l))
    /\ [][\A l \in Locks :
            (InMapping(outstandingLocks, locks, l)
               /\ ~InMapping(outstandingLocks', locks', l))
                => /\ locks[l].released
                   /\ LockCountOf(outstandingLocks')
                        = LockCountOf(outstandingLocks) - 1]_vars

\* a lock nobody observed was released by performLockedOperation and its
\* entry is gone, while another lock is still counted
C14_Witness ==
    \E p \in Plos :
        /\ plos[p].lock \in Locks
        /\ locks[plos[p].lock].released
        /\ ~InMapping(outstandingLocks, locks, plos[p].lock)
        /\ getLockCount = 1

\* the queued calls of callbacks attached to waitForRelease() of lock l
QueuedObservers(l) ==
    {i \in DOMAIN queue : queue[i].t = "obs" /\ queue[i].a = l}

\* the callbacks still registered on the pending releasePromise of lock l
WaitingObservers(l) ==
    {i \in DOMAIN locks[l].reactions : locks[l].reactions[i].t = "obs"}

\* C15: no callback attached to waitForRelease() is called, or queued to be
\* called, while release() has not been called on the lock; once release()
\* has been called every such callback has been called or is queued to be
\* called, and the value it gets is the id of the lock.
C15_WaitForReleaseResolvesWithID ==
    \A l \in Locks :
        /\ ~locks[l].released =>
              /\ locks[l].seen = << >>
              /\ QueuedObservers(l) = {}
              /\ Cardinality(WaitingObservers(l)) = locks[l].observers
        /\ locks[l].released =>
              /\ WaitingObservers(l) = {}
              /\ Len(locks[l].seen) + Cardinality(QueuedObservers(l))
                    = locks[l].observers
              /\ \A i \in DOMAIN locks[l].seen : locks[l].seen[i] = locks[l].id
              /\ \A i \in QueuedObservers(l) : queue[i].v = locks[l].id

\* both callbacks attached to the lock with id 2 were called, each with 2
C15_Witness ==
    \E l \in Locks :
        /\ locks[l].released
        /\ locks[l].seen = <<locks[l].id, locks[l].id>>
        /\ locks[l].id = 2

\* no getLock() promise is rejected, and a performLockedOperation promise
\* is rejected only with the error its operation failed with
NoFailureButTheOperations ==
    /\ \A g \in Calls : calls[g].state # "rejected"
    /\ \A p \in Plos :
          plos[p].state = "rejected" =>
              /\ plos[p].opDone
              /\ ~plos[p].opOk
              /\ plos[p].outVal = plos[p].opVal

\* C16: no getLock() call ever fails (its promise resolves with a lock or
\* stays pending), and performLockedOperation fails only with a failure of
\* the operation it was given.
C16_GetLockNeverFails ==
    NoFailureButTheOperations

\* the same on semaphores the constructor should have accepted
C16_HoldsForPositiveCapacity ==
    maxLockCount >= 1 => NoFailureButTheOperations

\* C17: every id in the mapping belongs to exactly one lock, and release()
\* has not been called on that lock: no released lock is still counted.
C17_MappingHoldsOnlyUnreleased ==
    \A id \in DOMAIN outstandingLocks :
        /\ outstandingLocks[id] \in Locks
        /\ locks[outstandingLocks[id]].id = id
        /\ ~locks[outstandingLocks[id]].released

\* C18: every lock getLock() has returned and release() has not been called
\* on is in the mapping under its own id, so getLockCount() is at least the
\* number of unreleased locks handed out.
C18_UnreleasedLocksRegistered ==
    /\ \A l \in Unreleased(locks) : InMapping(outstandingLocks, locks, l)
    /\ getLockCount >= Cardinality(Unreleased(locks))

\* two unreleased locks are registered after an earlier lock was released
\* and its entry removed
C18_Witness ==
    /\ Cardinality(Unreleased(locks)) = 2
    /\ getLockCount = 2
    /\ \E l \in Locks :
          /\ locks[l].released
          /\ ~InMapping(outstandingLocks, locks, l)
          /\ \E k \in Unreleased(locks) : k > l

\* lock l is outstanding: not released, or released with its entry still in
\* the mapping
Outstanding(l) ==
    ~locks[l].released \/ InMapping(outstandingLocks, locks, l)

\* C19: the step of getLock() that inserts a new lock gives it an id that
\* is not a key of the mapping and leaves every existing entry as it was,
\* and no two locks that are outstanding at the same time share an id.
C19_FreshIDAtInsertion ==
    /\ [](\A l, k \in Locks :
            (l # k /\ Outstanding(l) /\ Outstanding(k))
                => locks[l].id # locks[k].id)
    /\ [][Len(locks') = Len(locks) + 1 =>
            /\ locks'[Len(locks')].id \notin DOMAIN outstandingLocks
            /\ DOMAIN outstandingLocks' =
                  DOMAIN outstandingLocks \cup {locks'[Len(locks')].id}
            /\ outstandingLocks'[locks'[Len(locks')].id] = Len(locks')
            /\ \A i \in DOMAIN outstandingLocks :
                  outstandingLocks'[i] = outstandingLocks[i]]_vars

\* an id was given to a second lock after the entry of the first was
\* removed, while another lock is outstanding under another id
C19_Witness ==
    \E l, k, j \in Locks :
        /\ l < k
        /\ locks[l].id = locks[k].id
        /\ locks[l].released
        /\ ~locks[k].released
        /\ Outstanding(j)
        /\ locks[j].id # locks[k].id

\* the continuation of the suspended getLock() call g is queued: its
\* Promise.any has settled and the call is about to resume
Resuming(g) ==
    \E i \in DOMAIN queue :
        queue[i].t \in {"resume", "throw"} /\ queue[i].a = g

\* release() has been called on a lock that was in the mapping when the
\* call g last suspended
AwaitedLockReleased(g) ==
    \E l \in calls[g].awaited : locks[l].released

\* C20: a getLock() call that found the semaphore at capacity is resumed,
\* to run its capacity check again, only after release() has been called on
\* one of the locks that were outstanding when it suspended.
C20_SuspendedUntilRelease ==
    \A g \in Calls : Resuming(g) => AwaitedLockReleased(g)

\* the same for the revision that awaits the release promises, on
\* semaphores the constructor should have accepted
C20_ForReleasePromises ==
    (version = "v1.1.0" /\ maxLockCount >= 1) => C20_SuspendedUntilRelease

\* the same for the revision that awaits the lock objects
C20_ForLockObjects ==
    (version = "v1.0.0" /\ maxLockCount >= 1) => C20_SuspendedUntilRelease

\* the locks on which release() has been called
Released == Locks \ Unreleased(locks)

\* the getLock() calls that found the semaphore at capacity
Waiters == {g \in Calls : calls[g].waited}

\* the waiters that have been admitted since
AdmittedWaiters == {g \in Waiters : calls[g].state = "resolved"}

\* the Promise.any reaction of the current suspension of g is queued
WakeQueued(g) ==
    \E i \in DOMAIN queue :
        queue[i].t = "any" /\ queue[i].a = g /\ queue[i].r = calls[g].round

\* C21: on a semaphore at capacity with waiters, once release() has been
\* called on exactly one lock and no further getLock() call is made: no
\* waiter fails; every waiter that awaits the released lock has been woken
\* or has its wake-up queued; at most one waiter is admitted; a waiter
\* that has suspended again did so because an admitted waiter had filled
\* the semaphore, and it awaits exactly the locks now in the mapping; and
\* when nothing is left to run exactly one waiter has been admitted and
\* all the others have suspended again.
C21_OneReleaseAdmitsOneWaiter ==
    (maxLockCount >= 1 /\ Cardinality(Released) = 1 /\ Waiters # {}) =>
        LET r == CHOOSE l \in Released : TRUE
        IN /\ \A g \in Waiters : calls[g].state # "rejected"
           /\ Cardinality(AdmittedWaiters) <= 1
           /\ \A g \in Waiters \ AdmittedWaiters :
                 IF r \in calls[g].awaited
                 THEN version = "v1.1.0" =>
                          (calls[g].woken \/ WakeQueued(g))
                 ELSE /\ AdmittedWaiters # {}
                      /\ calls[g].awaited = ValuesOf(outstandingLocks)
                      /\ getLockCount = maxLockCount
           /\ (queue = << >> /\ block = "idle") =>
                 /\ Cardinality(AdmittedWaiters) = 1
                 /\ \A g \in Waiters \ AdmittedWaiters :
                       r \notin calls[g].awaited

\* two calls waited on a full semaphore, one lock was released, one of the
\* two was admitted and the other suspended again, and nothing is left to run
C21_Witness ==
    /\ Cardinality(Released) = 1
    /\ Cardinality(Waiters) = 2
    /\ Cardinality(AdmittedWaiters) = 1
    /\ queue = << >>
    /\ block = "idle"
    /\ \E g \in Waiters :
          /\ calls[g].state = "pending"
          /\ calls[g].round = 2
          /\ calls[g].awaited = ValuesOf(outstandingLocks)

\* the step inserts the entry of one newly minted lock and nothing else
InsertsOne ==
    /\ Len(locks') = Len(locks) + 1
    /\ LET l == Len(locks')
           id == locks'[l].id
       IN /\ id \notin DOMAIN outstandingLocks
          /\ DOMAIN outstandingLocks' = DOMAIN outstandingLocks \cup {id}
          /\ outstandingLocks'[id] = l
          /\ \A i \in DOMAIN outstandingLocks :
                outstandingLocks'[i] = outstandingLocks[i]

\* the step is the release continuation of one released lock and removes
\* the entry of that lock and nothing else
RemovesOwn ==
    /\ Len(locks') = Len(locks)
    /\ queue # << >>
    /\ Head(queue).t = "del"
    /\ LET l == Head(queue).a
           id == locks[l].id
       IN /\ locks[l].released
          /\ InMapping(outstandingLocks, locks, l)
          /\ DOMAIN outstandingLocks' = DOMAIN outstandingLocks \ {id}
          /\ \A i \in DOMAIN outstandingLocks' :
                outstandingLocks'[i] = outstandingLocks[i]

\* C22: a step that changes the mapping is the insertion of one new entry
\* by getLock() or the removal of a released lock's own entry by its
\* release continuation, every other entry staying as it was; a step in
\* which user code calls waitForRelease() or release() leaves the mapping
\* unchanged.
C22_MappingChangedOnlyByInsertAndRemove ==
    [][/\ outstandingLocks' # outstandingLocks => (InsertsOne \/ RemovesOwn)
       /\ Observers(locks') > Observers(locks) =>
             outstandingLocks' = outstandingLocks
       /\ (Len(locks') = Len(locks)
            /\ Cardinality(Unreleased(locks')) < Cardinality(Unreleased(locks)))
             => outstandingLocks' = outstandingLocks]_vars

\* a lock was inserted and removed again, and waitForRelease() was called
\* on another lock that is still in the mapping
C22_Witness ==
    \E l, k \in Locks :
        /\ locks[l].released
        /\ ~InMapping(outstandingLocks, locks, l)
        /\ InMapping(outstandingLocks, locks, k)
        /\ locks[k].observers >= 1

\* where lock l is in its life: 0 absent (not minted yet), 1 outstanding
\* (in the mapping, not released), 2 released (still in the mapping),
\* 3 removed (released and out of the mapping); -1 is the state no lock
\* should be in, unreleased and out of the mapping
Phase(ol, ls, l) ==
    IF l > Len(ls) THEN 0
    ELSE IF ~ls[l].released
    THEN (IF InMapping(ol, ls, l) THEN 1 ELSE -1)
    ELSE (IF InMapping(ol, ls, l) THEN 2 ELSE 3)

\* C23: every lock moves through absent, outstanding, released, removed in
\* that order, one stage per step and never backwards: it enters the
\* mapping once, when it is minted, a released lock stays released, and a
\* removed lock stays out of the mapping.
C23_LockLifeCycle ==
    [][\A l \in 1..MaxCalls :
         /\ Phase(outstandingLocks', locks', l) >= 0
         /\ Phase(outstandingLocks', locks', l)
              - Phase(outstandingLocks, locks, l) \in {0, 1}]_vars

\* one lock is removed and was released a second time after that, its id
\* is in use by a later lock, and another lock is released but not removed
C23_Witness ==
    \E l, k, j \in Locks :
        /\ Phase(outstandingLocks, locks, l) = 3
        /\ locks[l].releaseCalls = 2
        /\ Phase(outstandingLocks, locks, k) = 1
        /\ locks[k].id = locks[l].id
        /\ Phase(outstandingLocks, locks, j) = 2

\* C24: a getLock() call made while an earlier call is suspended is never
\* admitted before that earlier call: when a call h has been admitted,
\* every call made before h that had to wait was admitted before h.
C24_NoOvertaking ==
    \A w, h \in Calls :
        (w < h /\ calls[w].waited /\ Pos(h) # 0)
            => (Pos(w) # 0 /\ Pos(w) < Pos(h))

\* the same for each revision of getLock
C24_ForReleasePromises ==
    version = "v1.1.0" => C24_NoOvertaking

C24_ForLockObjects ==
    version = "v1.0.0" => C24_NoOvertaking

\* the getLock() invocation that has been in progress longest is still
\* suspended: what has finished before it is forgotten, so a call that is
\* the first one stays the first one until it is admitted
OldestCallPending == Len(calls) >= 1 /\ calls[1].state = "pending"

\* C25: no starvation: on a semaphore of capacity >= 1 whose admitted locks
\* are all released again and again (no lock is held for ever), no getLock()
\* stays suspended for ever, also when other tasks keep acquiring and
\* releasing locks for ever.
C25_NoStarvation ==
    (maxLockCount >= 1 /\ []<>(Unreleased(locks) = {})) =>
        []<>(~OldestCallPending)

C25_ForReleasePromises ==
    (version = "v1.1.0" /\ maxLockCount >= 1
        /\ []<>(Unreleased(locks) = {})) =>
        []<>(~OldestCallPending)

C25_ForLockObjects ==
    (version = "v1.0.0" /\ maxLockCount >= 1
        /\ []<>(Unreleased(locks) = {})) =>
        []<>(~OldestCallPending)

\* no release continuation (the delete registered at admission) and no
\* wake-up of a waiter (Promise.any reaction, resumption of getLock after
\* its await) is still to run
Quiescent ==
    \A i \in DOMAIN queue : queue[i].t \notin {"del", "any", "resume", "throw"}

\* the getLock() invocations that are suspended
Suspended == {g \in Calls : calls[g].state = "pending"}

\* C26: no lost wake-up: in every quiescent state of a semaphore with
\* capacity n >= 1, if some getLock() call is suspended then the mapping
\* holds exactly n locks, all of them unreleased, and the suspended call
\* has a reaction on the promise of each of them.
C26_NoLostWakeUp ==
    (maxLockCount >= 1 /\ Quiescent /\ Suspended # {}) =>
        /\ getLockCount = maxLockCount
        /\ \A l \in ValuesOf(outstandingLocks) : ~locks[l].released
        /\ \A g \in Suspended : \A l \in ValuesOf(outstandingLocks) :
              \E i \in DOMAIN locks[l].reactions :
                  /\ locks[l].reactions[i].t = "any"
                  /\ locks[l].reactions[i].a = g
                  /\ locks[l].reactions[i].r = calls[g].round

\* a quiescent state with nothing left to run, in which a call that was
\* woken by a release and found the semaphore full again is suspended, on
\* a semaphore of capacity 2 one of whose locks was released and replaced
C26_Witness ==
    /\ maxLockCount = 2
    /\ queue = << >>
    /\ block = "idle"
    /\ getLockCount = 2
    /\ \E l \in Locks : locks[l].released
    /\ \E g \in Suspended : calls[g].round = 2

\* C27: the step that runs the continuation of the caller of
\* performLockedOperation finds the lock that call used released, its delete
\* continuation already run and its entry out of the mapping, and leaves the
\* mapping alone: getLockCount() read in the continuation counts only the
\* entries of other locks, and at most capacity - 1 of them when no lock was
\* inserted since.
C27_LockRemovedBeforeCallerResumes ==
    [][\A p \in Plos :
         (~plos[p].observed /\ plos'[p].observed /\ plos[p].lock # 0) =>
            LET l == plos[p].lock
            IN /\ locks[l].released
               /\ l \notin ValuesOf(outstandingLocks)
               /\ ~DeleteQueued(l)
               /\ outstandingLocks' = outstandingLocks
               /\ LockCountOf(outstandingLocks') =
                     Cardinality(ValuesOf(outstandingLocks') \ {l})
               /\ block' = "user"]_vars

\* the caller of a performLockedOperation that ran an operation is in its
\* continuation and reads getLockCount() = 1 on a semaphore of capacity 2:
\* the entry that is left belongs to another, unreleased lock, and a call
\* that suspended while the operation ran has not resumed yet
C27_Witness ==
    /\ block = "user"
    /\ maxLockCount = 2
    /\ getLockCount = 1
    /\ \E p \in Plos :
          /\ plos[p].observed
          /\ plos[p].lock # 0
          /\ \A l \in ValuesOf(outstandingLocks) :
                l # plos[p].lock /\ ~locks[l].released
    /\ \E g \in Suspended : Resuming(g)

\* C28: acquisition is not reentrant: on a semaphore of capacity 1, while an
\* operation run by performLockedOperation awaits a getLock() or a
\* performLockedOperation() it made on the same semaphore, that call is
\* suspended, the operation has not completed, the outer
\* performLockedOperation is not settled, release() has not been called on
\* the outer lock, and the mapping holds the outer lock alone
\* (getLockCount() = 1); no step ever ends that wait.
C28_NotReentrant ==
    \A p \in Plos :
        (maxLockCount = 1 /\ plos[p].nested # 0) =>
            /\ calls[plos[p].nested].state = "pending"
            /\ calls[plos[p].nested].owner # 0 =>
                  plos[calls[plos[p].nested].owner].state = "acquiring"
            /\ ~NestedDone(Now, p)
            /\ plos[p].state = "awaitOp"
            /\ ~plos[p].opDone
            /\ ~Settled(p)
            /\ locks[plos[p].lock].releaseCalls = 0
            /\ ~locks[plos[p].lock].released
            /\ ValuesOf(outstandingLocks) = {plos[p].lock}
            /\ getLockCount = 1

\* nothing is left to run on a semaphore of capacity 1 whose operation
\* awaits a performLockedOperation() of its own, which is suspended, as is
\* a getLock() that was called after it
C28_Witness ==
    /\ maxLockCount = 1
    /\ queue = << >>
    /\ block = "idle"
    /\ \E p \in Plos :
          /\ plos[p].nested # 0
          /\ calls[plos[p].nested].owner # 0
          /\ calls[plos[p].nested].waited
          /\ \E g \in Suspended : g > plos[p].nested /\ calls[g].owner = 0

\* on a semaphore of capacity 2 the same operation goes through: the call
\* the operation awaited was admitted and the outer call has settled
C28_WitnessCapacityTwo ==
    /\ maxLockCount = 2
    /\ \E p \in Plos :
          /\ plos[p].nested # 0
          /\ Settled(p)

====
